---- MODULE Spec2Model ----
(***************************************************************************)
(* Banqi ("dark chess") as implemented by src/App.tsx (the controller and  *)
(* its timers), src/utils/gameLogic.ts (the rules) and src/constants.ts    *)
(* (the deal).                                                             *)
(*                                                                         *)
(* The controller is a React component.  Every handler runs against the    *)
(* state of the render it was created in (its closure), queues state       *)
(* updates, and is followed by a render and by the stalemate effect; one   *)
(* action of the model is one handler together with that render and        *)
(* effect.  A capture is finished by a setTimeout callback created in the  *)
(* render of the click: it still sees the pieces, playerColors and         *)
(* currentPlayerIndex of that render when it fires, so a pending timer     *)
(* carries them along.                                                     *)
(***************************************************************************)
EXTENDS Integers, Sequences, FiniteSets, TLC

VARIABLES
    gameStarted,         \* App.tsx:11
    pieces,              \* App.tsx:16   array of Piece, in id order
    currentPlayerIndex,  \* App.tsx:17   0 or 1
    playerColors,        \* App.tsx:18   seat -> "red" | "black" | "null"
    selectedPieceId,     \* App.tsx:19   piece id or Null
    winner,              \* App.tsx:21   seat or Null
    killAnimData,        \* App.tsx:27   <<>> (null) or <<attacker id, victim id>>
    timers,              \* pending setTimeout callbacks, in the order they were scheduled:
                         \* <<kind, what the callback holds, user events handled since>>
    lastOp,              \* the last handler that queued a state update (observer)
    args,                \* arguments of the last call of a rules function (SpecRules only)
    ret                  \* its result

vars == <<gameStarted, pieces, currentPlayerIndex, playerColors, selectedPieceId,
          winner, killAnimData, timers, lastOp, args, ret>>

----------------------------------------------------------------------------
(* Constants of the program *)

ROWS == 4

COLS == 8

Null == -1

PieceTypes == {"general", "advisor", "elephant", "chariot", "horse", "cannon", "soldier"}

PlayerColor == {"red", "black"}

PIECE_RANKS ==
    [general |-> 7, advisor |-> 6, elephant |-> 5, chariot |-> 4,
     horse |-> 3, cannon |-> 2, soldier |-> 1]

(* Bounds of the model *)

\* clicks fall on the cells 0..MaxClickCell, counted row by row from (0,0)
MaxClickCell == 2

\* at most this many setTimeout callbacks are pending at a time
MaxTimers == 2

\* at most this many user events (clicks, surrender, reset, start, quit) are
\* handled while the callback of one capture is pending
MaxEventsPerCapture == 2

\* ... and while the callback that finalises one dead piece is pending
MaxEventsPerBurial == 4

\* the shuffle steps i = 1..MaxShuffleLow whose random outcome is enumerated
MaxShuffleLow == 3

----------------------------------------------------------------------------
(* src/constants.ts: the deal *)

definitions ==
    << [type |-> "general",  color |-> "red",   count |-> 1],
       [type |-> "advisor",  color |-> "red",   count |-> 2],
       [type |-> "elephant", color |-> "red",   count |-> 2],
       [type |-> "chariot",  color |-> "red",   count |-> 2],
       [type |-> "horse",    color |-> "red",   count |-> 2],
       [type |-> "cannon",   color |-> "red",   count |-> 2],
       [type |-> "soldier",  color |-> "red",   count |-> 5],
       [type |-> "general",  color |-> "black", count |-> 1],
       [type |-> "advisor",  color |-> "black", count |-> 2],
       [type |-> "elephant", color |-> "black", count |-> 2],
       [type |-> "chariot",  color |-> "black", count |-> 2],
       [type |-> "horse",    color |-> "black", count |-> 2],
       [type |-> "cannon",   color |-> "black", count |-> 2],
       [type |-> "soldier",  color |-> "black", count |-> 5] >>

RECURSIVE rawPiecesUpTo(_)
\* the forEach of generateNewGamePieces over the first k definitions
rawPiecesUpTo(k) ==
    IF k = 0 THEN <<>>
    ELSE rawPiecesUpTo(k - 1) \o
         [i \in 1..definitions[k].count |->
            [type |-> definitions[k].type, color |-> definitions[k].color,
             revealed |-> FALSE, dead |-> FALSE,
             rank |-> PIECE_RANKS[definitions[k].type]]]

rawPieces == rawPiecesUpTo(Len(definitions))

RECURSIVE shuffleLoop(_, _, _)
\* the loop of shuffle from index i downwards (0-based indices as in the
\* source; js[i] is the value of Math.floor(Math.random() * (i + 1)))
shuffleLoop(newArr, i, js) ==
    IF i > 0
    THEN shuffleLoop([newArr EXCEPT ![i + 1] = newArr[js[i] + 1],
                                    ![js[i] + 1] = newArr[i + 1]], i - 1, js)
    ELSE newArr

shuffle(array, js) == shuffleLoop(array, Len(array) - 1, js)

\* generateNewGamePieces that counts the rows with ROWS cells each
generateNewGamePieces_rowsOfROWS(js) ==
    LET shuffled == shuffle(rawPieces, js)
    IN  [n \in 1..(ROWS * COLS) |->
           [id       |-> n - 1,
            type     |-> shuffled[n].type,
            color    |-> shuffled[n].color,
            position |-> [r |-> (n - 1) \div ROWS, c |-> (n - 1) % COLS],
            revealed |-> shuffled[n].revealed,
            dead     |-> shuffled[n].dead,
            dying    |-> FALSE,
            rank     |-> shuffled[n].rank]]

generateNewGamePieces(js) ==
    LET shuffled == shuffle(rawPieces, js)
    IN  [n \in 1..(ROWS * COLS) |->
           [id       |-> n - 1,
            type     |-> shuffled[n].type,
            color    |-> shuffled[n].color,
            position |-> [r |-> (n - 1) \div COLS, c |-> (n - 1) % COLS],
            revealed |-> shuffled[n].revealed,
            dead     |-> shuffled[n].dead,
            dying    |-> FALSE,
            rank     |-> shuffled[n].rank]]

\* Outcomes of Math.random() in shuffle, one choice j <= i for i = 1..31.
\* DealA: row 0 is red chariot, black horse, black elephant, red soldier,
\*        black soldier, red general, black cannon, red advisor.
DealA ==
    <<1, 2, 3, 2, 0, 3, 1, 2, 3, 4, 6, 7, 8, 9, 10, 12, 13, 14, 15, 16, 17,
      18, 20, 21, 22, 24, 26, 28, 29, 30, 31>>

\* DealB: row 0 is red cannon, black soldier, black general, red soldier,
\*        red horse, black advisor, red chariot, black elephant.
DealB ==
    <<0, 2, 3, 2, 5, 5, 2, 0, 1, 2, 3, 4, 6, 8, 10, 12, 13, 14, 15, 18, 20,
      21, 22, 23, 24, 25, 26, 28, 29, 30, 31>>

Deals == {DealA, DealB}

----------------------------------------------------------------------------
(* src/utils/gameLogic.ts: the rules *)

\* the result of Array.find when nothing matches
undefined ==
    [id |-> Null, type |-> "undefined", color |-> "undefined",
     position |-> [r |-> Null, c |-> Null],
     revealed |-> FALSE, dead |-> FALSE, dying |-> FALSE, rank |-> 0]

Min(S) == CHOOSE x \in S : \A y \in S : x <= y

Abs(x) == IF x < 0 THEN -x ELSE x

Sign(x) == IF x > 0 THEN 1 ELSE IF x < 0 THEN -1 ELSE 0

isSamePosition(p1, p2) == p1.r = p2.r /\ p1.c = p2.c

\* Array.find: the first piece in array order that is neither dead nor dying
\* and stands on pos
getPieceAt(ps, pos) ==
    LET found == {i \in 1..Len(ps) :
                    ~ps[i].dead /\ ~ps[i].dying /\ isSamePosition(ps[i].position, pos)}
    IN  IF found = {} THEN undefined ELSE ps[Min(found)]

canSelectPiece(piece, playerColor) ==
    IF ~piece.revealed THEN FALSE
    ELSE IF playerColor = "null" THEN FALSE
    ELSE piece.color = playerColor

isAdjacent(p1, p2) ==
    LET dr == Abs(p1.r - p2.r)
        dc == Abs(p1.c - p2.c)
    IN  (dr + dc) = 1

RECURSIVE countObstaclesLoop(_, _, _, _, _, _, _)
\* the while loop of countObstacles
countObstaclesLoop(ps, currR, currC, to, dr, dc, count) ==
    IF currR # to.r \/ currC # to.c
    THEN countObstaclesLoop(ps, currR + dr, currC + dc, to, dr, dc,
            IF getPieceAt(ps, [r |-> currR, c |-> currC]) # undefined
            THEN count + 1 ELSE count)
    ELSE count

\* countObstacles whose walk starts on the cell of from
countObstacles_fromStart(ps, from, to) ==
    IF from.r # to.r /\ from.c # to.c THEN -1
    ELSE LET dr == Sign(to.r - from.r)
             dc == Sign(to.c - from.c)
         IN  countObstaclesLoop(ps, from.r, from.c, to, dr, dc, 0)

countObstacles(ps, from, to) ==
    IF from.r # to.r /\ from.c # to.c THEN -1
    ELSE LET dr == Sign(to.r - from.r)
             dc == Sign(to.c - from.c)
         IN  countObstaclesLoop(ps, from.r + dr, from.c + dc, to, dr, dc, 0)

\* cannonMove that lets the cannon jump over one or more pieces
cannonMove_anyScreen(ps, piece, to, target) ==
    IF target = undefined THEN isAdjacent(piece.position, to)
    ELSE IF target.revealed /\ target.color # piece.color
         THEN IF piece.position.r # to.r /\ piece.position.c # to.c
              THEN FALSE
              ELSE countObstacles(ps, piece.position, to) >= 1
         ELSE FALSE

\* isValidMove, the branch of a cannon
cannonMove(ps, piece, to, target) ==
    IF target = undefined THEN isAdjacent(piece.position, to)
    ELSE IF target.revealed /\ target.color # piece.color
         THEN IF piece.position.r # to.r /\ piece.position.c # to.c
              THEN FALSE
              ELSE countObstacles(ps, piece.position, to) = 1
         ELSE FALSE

\* hierarchyCheck without the rule that a general cannot capture a soldier
hierarchyCheck_generalTakesSoldier(piece, target) ==
    IF piece.type = "soldier" /\ target.type = "general" THEN TRUE
    ELSE piece.rank >= target.rank

\* isValidMove, the hierarchy check of a regular piece against its target
hierarchyCheck(piece, target) ==
    IF piece.type = "soldier" /\ target.type = "general" THEN TRUE
    ELSE IF piece.type = "general" /\ target.type = "soldier" THEN FALSE
    ELSE piece.rank >= target.rank

\* the bounds test that rejects the targets before the first row or column only
outOfBounds_lowOnly(to) == to.r < 0 \/ to.c < 0

\* isValidMove: to.r < 0 || to.r >= ROWS || to.c < 0 || to.c >= COLS
outOfBounds(to) == to.r < 0 \/ to.r >= ROWS \/ to.c < 0 \/ to.c >= COLS

\* isValidMove in which a cannon must also pass the hierarchy check to capture
isValidMove_cannonRanked(ps, piece, to) ==
    IF outOfBounds(to) THEN FALSE
    ELSE
    LET target == getPieceAt(ps, to)
    IN  IF piece.type = "cannon"
        THEN /\ cannonMove(ps, piece, to, target)
             /\ (target # undefined => hierarchyCheck(piece, target))
        ELSE IF ~isAdjacent(piece.position, to) THEN FALSE
             ELSE IF target = undefined THEN TRUE
             ELSE IF ~target.revealed THEN FALSE
             ELSE IF target.color = piece.color THEN FALSE
             ELSE hierarchyCheck(piece, target)

isValidMove(ps, piece, to) ==
    IF outOfBounds(to) THEN FALSE
    ELSE
    LET target == getPieceAt(ps, to)
    IN  IF piece.type = "cannon"
        THEN cannonMove(ps, piece, to, target)
        ELSE IF ~isAdjacent(piece.position, to) THEN FALSE
             ELSE IF target = undefined THEN TRUE
             ELSE IF ~target.revealed THEN FALSE
             ELSE IF target.color = piece.color THEN FALSE
             ELSE hierarchyCheck(piece, target)

\* hasHiddenPieces that looks at the hidden pieces of the player only
hasHiddenPieces_ownOnly(ps, playerColor) ==
    \E i \in 1..Len(ps) :
        ~ps[i].dead /\ ~ps[i].revealed /\ ~ps[i].dying /\ ps[i].color = playerColor

\* checkHasValidMoves: pieces.some(p => !p.dead && !p.revealed && !p.dying)
hasHiddenPieces(ps, playerColor) ==
    \E i \in 1..Len(ps) : ~ps[i].dead /\ ~ps[i].revealed /\ ~ps[i].dying

\* myPieces that keeps the dying pieces of the player
myPieces_withDying(ps, playerColor) ==
    {i \in 1..Len(ps) : ~ps[i].dead /\ ps[i].revealed /\ ps[i].color = playerColor}

\* checkHasValidMoves: pieces.filter(p => !p.dead && !p.dying && p.revealed
\* && p.color === playerColor), as indices
myPieces(ps, playerColor) ==
    {i \in 1..Len(ps) : ~ps[i].dead /\ ~ps[i].dying /\ ps[i].revealed
                        /\ ps[i].color = playerColor}

checkHasValidMoves(ps, playerColor) ==
    IF hasHiddenPieces(ps, playerColor) THEN TRUE
    ELSE \E i \in myPieces(ps, playerColor) :
            \E r \in 0..(ROWS - 1) : \E c \in 0..(COLS - 1) :
                isValidMove(ps, ps[i], [r |-> r, c |-> c])

----------------------------------------------------------------------------
(* src/App.tsx: the controller *)

\* no rules function has been called
noCall ==
    [f |-> "none", piece |-> 0, from |-> [r |-> Null, c |-> Null],
     to |-> [r |-> Null, c |-> Null], playerColor |-> "null", js |-> <<>>]

noColors == [seat \in {0, 1} |-> "null"]

otherSeat(idx) == IF idx = 0 THEN 1 ELSE 0

\* stalemateEffect that asks whether the seat that has just moved can move
stalemateEffect_checksMover(ps, cpi, pc, w, k) ==
    IF w # Null \/ k # <<>> THEN w
    ELSE LET currentColor == pc[otherSeat(cpi)]
         IN  IF currentColor # "null" /\ ~checkHasValidMoves(ps, currentColor)
             THEN otherSeat(cpi)
             ELSE w

\* The stalemate effect (useEffect on currentPlayerIndex, pieces,
\* playerColors, winner, killAnimData): the winner it leaves behind.
stalemateEffect(ps, cpi, pc, w, k) ==
    IF w # Null \/ k # <<>> THEN w
    ELSE LET currentColor == pc[cpi]
         IN  IF currentColor # "null" /\ ~checkHasValidMoves(ps, currentColor)
             THEN otherSeat(cpi)
             ELSE w

\* The queued state updates of a handler are applied by a render, and the
\* stalemate effect runs on the result.  op names the handler.
Render(gs, ps, cpi, pc, sel, w, k, tm, op) ==
    /\ gameStarted' = gs
    /\ pieces' = ps
    /\ currentPlayerIndex' = cpi
    /\ playerColors' = pc
    /\ selectedPieceId' = sel
    /\ winner' = stalemateEffect(ps, cpi, pc, w, k)
    /\ killAnimData' = k
    /\ timers' = tm
    /\ lastOp' = op
    /\ UNCHANGED <<args, ret>>

\* what a callback created in the current render sees
Closure ==
    [pieces |-> pieces, playerColors |-> playerColors,
     currentPlayerIndex |-> currentPlayerIndex]

\* pieces.find(p => p.id === id)
findById(ps, id) ==
    LET found == {i \in 1..Len(ps) : ps[i].id = id}
    IN  IF found = {} THEN undefined ELSE ps[Min(found)]

\* the pending timers after one more user event has been handled
Aged(tm) == [i \in 1..Len(tm) |-> <<tm[i][1], tm[i][2], tm[i][3] + 1>>]

\* a user event can be handled while the pending timers are not yet due
UserEvent ==
    \A i \in 1..Len(timers) :
        timers[i][3] < (IF timers[i][1] = "capture"
                        THEN MaxEventsPerCapture ELSE MaxEventsPerBurial)

\* flippedPieces that also takes every piece out of its dying state
flippedPieces_clearsDying(ps, piece) ==
    [i \in 1..Len(ps) |->
       [ps[i] EXCEPT !.revealed = (@ \/ ps[i].id = piece.id), !.dying = FALSE]]

\* handleFlip, step 1: pieces.map(p => p.id === piece.id ? {...p, revealed: true} : p)
flippedPieces(ps, piece) ==
    [i \in 1..Len(ps) |->
       IF ps[i].id = piece.id THEN [ps[i] EXCEPT !.revealed = TRUE] ELSE ps[i]]

\* p2Color that gives seat 1 the colour of the flipped piece as well
p2Color_same(piece) == piece.color

\* handleFlip: const p2Color = piece.color === 'red' ? 'black' : 'red'
p2Color(piece) == IF piece.color = "red" THEN "black" ELSE "red"

\* flippedColors without the test that the colours are still unassigned
flippedColors_everyFlip(pc, piece) ==
    [seat \in {0, 1} |->
       IF seat = 0 THEN piece.color
       ELSE p2Color(piece)]

\* handleFlip, step 2: the seat colours after the flip of piece
flippedColors(pc, piece) ==
    IF pc[0] = "null"
    THEN [seat \in {0, 1} |->
            IF seat = 0 THEN piece.color
            ELSE p2Color(piece)]
    ELSE pc

\* handleFlip, after handleSquareClick has cleared the selection
handleFlip(piece) ==
    LET newPieces == flippedPieces(pieces, piece)
        newColors == flippedColors(playerColors, piece)
    IN  Render(gameStarted, newPieces, otherSeat(currentPlayerIndex), newColors,
               Null, winner, killAnimData, Aged(timers), "flip")

\* movedAttacker that turns the moved piece face down
movedAttacker_hidden(p, to) == [p EXCEPT !.position = to, !.revealed = FALSE]

\* performBoardUpdate: { ...p, position: to }
movedAttacker(p, to) == [p EXCEPT !.position = to]

\* performBoardUpdate: { ...p, dying: true }
dyingTarget(p) == [p EXCEPT !.dying = TRUE]

\* movedPieces without the branch that marks the target dying
movedPieces_targetStays(ps, piece, to, targetPiece) ==
    [i \in 1..Len(ps) |->
       IF ps[i].id = piece.id THEN movedAttacker(ps[i], to) ELSE ps[i]]

\* performBoardUpdate: newPieces, the map over the pieces of its closure
movedPieces(ps, piece, to, targetPiece) ==
    [i \in 1..Len(ps) |->
       IF ps[i].id = piece.id
       THEN movedAttacker(ps[i], to)
       ELSE IF targetPiece # undefined /\ ps[i].id = targetPiece.id
            THEN dyingTarget(ps[i])
            ELSE ps[i]]

\* eliminated that counts only the revealed pieces of the opponent
eliminated_revealedOnly(newPieces, opponentColor) ==
    LET opponentAlive ==
            {i \in 1..Len(newPieces) :
                newPieces[i].color = opponentColor /\ newPieces[i].revealed
                /\ ~newPieces[i].dead /\ ~newPieces[i].dying}
    IN  Cardinality(opponentAlive) = 0

\* performBoardUpdate: the opponent has no piece left that is neither dead
\* nor dying
eliminated(newPieces, opponentColor) ==
    LET opponentAlive ==
            {i \in 1..Len(newPieces) :
                newPieces[i].color = opponentColor
                /\ ~newPieces[i].dead /\ ~newPieces[i].dying}
    IN  Cardinality(opponentAlive) = 0

\* performBoardUpdate, run with the closure cl of the render that created
\* the call; k and tm are killAnimData and the pending timers at the call
performBoardUpdate(cl, piece, to, targetPiece, k, tm, op) ==
    LET newPieces == movedPieces(cl.pieces, piece, to, targetPiece)
        newTimers ==
            IF targetPiece # undefined
            THEN Append(tm, <<"dead", targetPiece.id, 0>>) ELSE tm
        opponentColor == cl.playerColors[otherSeat(cl.currentPlayerIndex)]
    IN  IF opponentColor # "null" /\ eliminated(newPieces, opponentColor)
        THEN Render(gameStarted, newPieces, currentPlayerIndex, playerColors,
                    Null, cl.currentPlayerIndex, k, newTimers, op)
        ELSE Render(gameStarted, newPieces, otherSeat(currentPlayerIndex),
                    playerColors, Null, winner, k, newTimers, op)

\* executeMove that queues a capture with capturer and victim exchanged
executeMove_exchanged(piece, to) ==
    LET targetPiece == getPieceAt(pieces, to)
    IN  IF targetPiece # undefined
        THEN /\ Len(timers) < MaxTimers
             /\ Render(gameStarted, pieces, currentPlayerIndex, playerColors,
                       selectedPieceId, winner, <<targetPiece.id, piece.id>>,
                       Append(Aged(timers),
                              <<"capture",
                                [closure |-> Closure, piece |-> targetPiece,
                                 to |-> piece.position, targetPiece |-> piece],
                                0>>),
                       "capture")
        ELSE performBoardUpdate(Closure, piece, to, undefined, killAnimData,
                                Aged(timers), "move")

executeMove(piece, to) ==
    LET targetPiece == getPieceAt(pieces, to)
    IN  IF targetPiece # undefined
        THEN /\ Len(timers) < MaxTimers
             /\ Render(gameStarted, pieces, currentPlayerIndex, playerColors,
                       selectedPieceId, winner, <<piece.id, targetPiece.id>>,
                       Append(Aged(timers),
                              <<"capture",
                                [closure |-> Closure, piece |-> piece, to |-> to,
                                 targetPiece |-> targetPiece], 0>>),
                       "capture")
        ELSE performBoardUpdate(Closure, piece, to, undefined, killAnimData,
                                Aged(timers), "move")

\* NoUpdate that passes the turn to the other seat
NoUpdate_passesTurn ==
    Render(gameStarted, pieces, otherSeat(currentPlayerIndex), playerColors,
           selectedPieceId, winner, killAnimData, Aged(timers), lastOp)

\* a handler that returns without queuing a state update
NoUpdate ==
    Render(gameStarted, pieces, currentPlayerIndex, playerColors,
           selectedPieceId, winner, killAnimData, Aged(timers), lastOp)

\* flipCase that flips only while nothing is selected
flipCase_nothingSelected(clickedPiece) ==
    clickedPiece # undefined /\ ~clickedPiece.revealed /\ selectedPieceId = Null

\* handleSquareClick, case 1: if (clickedPiece && !clickedPiece.revealed)
flipCase(clickedPiece) ==
    clickedPiece # undefined /\ ~clickedPiece.revealed

\* selectCase that takes a revealed piece of either colour
selectCase_anyColor(clickedPiece, myColor) ==
    clickedPiece # undefined /\ clickedPiece.revealed /\ myColor # "null"

\* handleSquareClick, case 2: if (clickedPiece && clickedPiece.revealed)
\* if (myColor && clickedPiece.color === myColor)
selectCase(clickedPiece, myColor) ==
    /\ clickedPiece # undefined /\ clickedPiece.revealed
    /\ myColor # "null" /\ clickedPiece.color = myColor

handleSquareClick(r, c) ==
    LET clickedPos == [r |-> r, c |-> c]
        clickedPiece == getPieceAt(pieces, clickedPos)
        myColor == playerColors[currentPlayerIndex]
    IN  /\ gameStarted
        /\ UserEvent
        /\ IF winner # Null \/ killAnimData # <<>> THEN NoUpdate
           ELSE IF flipCase(clickedPiece)
                THEN handleFlip(clickedPiece)
           ELSE IF selectCase(clickedPiece, myColor)
                THEN Render(gameStarted, pieces, currentPlayerIndex, playerColors,
                            clickedPiece.id, winner, killAnimData, Aged(timers),
                            "select")
           ELSE IF selectedPieceId # Null
                THEN LET sourcePiece == findById(pieces, selectedPieceId)
                     IN  IF sourcePiece # undefined
                         THEN IF isValidMove(pieces, sourcePiece, clickedPos)
                              THEN executeMove(sourcePiece, clickedPos)
                              ELSE Render(gameStarted, pieces, currentPlayerIndex,
                                          playerColors, Null, winner, killAnimData,
                                          Aged(timers), "deselect")
                         ELSE NoUpdate
           ELSE NoUpdate

\* handleSurrender that also forgets the seat colours
handleSurrender_clearsColors ==
    /\ gameStarted
    /\ UserEvent
    /\ IF winner # Null THEN NoUpdate
       ELSE Render(gameStarted, pieces, currentPlayerIndex, noColors,
                   selectedPieceId, otherSeat(currentPlayerIndex), killAnimData,
                   Aged(timers), "surrender")

handleSurrender ==
    /\ gameStarted
    /\ UserEvent
    /\ IF winner # Null THEN NoUpdate
       ELSE Render(gameStarted, pieces, currentPlayerIndex, playerColors,
                   selectedPieceId, otherSeat(currentPlayerIndex), killAnimData,
                   Aged(timers), "surrender")

\* resetGameTo without setWinner(null)
resetGameTo_keepsWinner(gs, op) ==
    \E js \in Deals :
        Render(gs, generateNewGamePieces(js), 0, noColors, Null, winner, <<>>,
               Aged(timers), op)

\* the state updates of resetGame; gs is gameStarted after the handler
resetGameTo(gs, op) ==
    \E js \in Deals :
        Render(gs, generateNewGamePieces(js), 0, noColors, Null, Null, <<>>,
               Aged(timers), op)

resetGame ==
    /\ gameStarted
    /\ UserEvent
    /\ resetGameTo(gameStarted, "reset")

backToSetup ==
    /\ gameStarted
    /\ UserEvent
    /\ resetGameTo(FALSE, "backToSetup")

startGame ==
    /\ ~gameStarted
    /\ UserEvent
    /\ Render(TRUE, pieces, currentPlayerIndex, playerColors, selectedPieceId,
              winner, killAnimData, Aged(timers), "startGame")

\* Timers fire in the order of their due times.  The capture timer runs
\* 1800 ms and the dead timer 600 ms, so a timer fires before every timer
\* scheduled after it, except that a dead timer may overtake a capture timer
\* scheduled less than 1200 ms before it.
CanFire(i) ==
    IF timers[i][1] = "dead"
    THEN \A j \in 1..(i - 1) : timers[j][1] # "dead"
    ELSE i = 1

RemoveAt(s, i) == SubSeq(s, 1, i - 1) \o SubSeq(s, i + 1, Len(s))

\* the callback of executeMove's setTimeout(..., 1800)
captureTimer(i) ==
    /\ i \in 1..Len(timers)
    /\ timers[i][1] = "capture"
    /\ CanFire(i)
    /\ LET t == timers[i][2]
       IN  performBoardUpdate(t.closure, t.piece, t.to, t.targetPiece, <<>>,
                              RemoveAt(timers, i), "captureTimer")

\* buriedPieces without dying: false
buriedPieces_keepsDying(prev, id) ==
    [n \in 1..Len(prev) |->
       IF prev[n].id = id THEN [prev[n] EXCEPT !.dead = TRUE] ELSE prev[n]]

\* prev.map(p => p.id === targetPiece.id ? {...p, dead: true, dying: false} : p)
buriedPieces(prev, id) ==
    [n \in 1..Len(prev) |->
       IF prev[n].id = id
       THEN [prev[n] EXCEPT !.dead = TRUE, !.dying = FALSE] ELSE prev[n]]

\* the callback of performBoardUpdate's setTimeout(..., 600)
deadTimer(i) ==
    /\ i \in 1..Len(timers)
    /\ timers[i][1] = "dead"
    /\ CanFire(i)
    /\ LET newPieces == buriedPieces(pieces, timers[i][2])
       IN  Render(gameStarted, newPieces, currentPlayerIndex, playerColors,
                  selectedPieceId, winner, killAnimData, RemoveAt(timers, i),
                  "deadTimer")

ClickCells ==
    {rc \in (0..(ROWS - 1)) \X (0..(COLS - 1)) : rc[1] * COLS + rc[2] <= MaxClickCell}

Click == \E rc \in ClickCells : handleSquareClick(rc[1], rc[2])

CaptureTimerFires == \E i \in 1..MaxTimers : captureTimer(i)

DeadTimerFires == \E i \in 1..MaxTimers : deadTimer(i)

\* the state after the component is constructed, for the deal js
InitGame(js) ==
    /\ gameStarted = FALSE
    /\ pieces = generateNewGamePieces(js)
    /\ currentPlayerIndex = 0
    /\ playerColors = noColors
    /\ selectedPieceId = Null
    /\ winner = Null
    /\ killAnimData = <<>>
    /\ timers = <<>>
    /\ lastOp = "init"
    /\ args = noCall
    /\ ret = FALSE

Init == \E js \in Deals : InitGame(js)

Next ==
    \/ startGame
    \/ Click
    \/ handleSurrender
    \/ resetGame
    \/ backToSetup
    \/ CaptureTimerFires
    \/ DeadTimerFires

Spec == Init /\ [][Next]_vars

\* a callback passed to setTimeout is run once its delay has passed
FairSpec ==
    Spec /\ WF_vars(CaptureTimerFires) /\ WF_vars(DeadTimerFires)

----------------------------------------------------------------------------
(* Late games: every piece of the deal has been revealed and captured      *)
(* except a few, so that a capture can take the last piece of a colour or  *)
(* a move can leave a colour without a legal move.                         *)

\* the board of deal js on which only the pieces in live are not dead, the
\* ones in hidden still face down
endgameBoard(js, live, hidden) ==
    LET dealt == generateNewGamePieces(js)
    IN  [i \in 1..Len(dealt) |->
           [dealt[i] EXCEPT !.revealed = (dealt[i].id \notin hidden),
                            !.dead = (dealt[i].id \notin (live \cup hidden))]]

\* the board ps after the pieces named in moved, a set of <<id, r, c>>, have
\* moved to their cells
relocated(ps, moved) ==
    [i \in 1..Len(ps) |->
       IF \E m \in moved : m[1] = ps[i].id
       THEN LET m == CHOOSE m \in moved : m[1] = ps[i].id
            IN  [ps[i] EXCEPT !.position = [r |-> m[2], c |-> m[3]]]
       ELSE ps[i]]

\* <<live revealed pieces, live hidden pieces, moved pieces>> of DealA.
\* The red chariot at (0,0) next to the black horse at (0,1), the black
\* elephant at (0,2) dead or still hidden; and a black soldier in the corner
\* (0,0) under the red advisor at (1,0), the red chariot at (0,2), with or
\* without the black horse at (0,1) between them.
Endgames ==
    {<<{0, 1}, {}, {}>>,
     <<{0, 1}, {2}, {}>>,
     <<{0, 4, 8}, {}, {<<4, 0, 0>>, <<0, 0, 2>>}>>,
     <<{0, 1, 4, 8}, {}, {<<4, 0, 0>>, <<0, 0, 2>>}>>}

InitEndgame ==
    \E eg \in Endgames, cpi \in {0, 1}, seat0 \in PlayerColor :
        /\ gameStarted = TRUE
        /\ pieces = relocated(endgameBoard(DealA, eg[1], eg[2]), eg[3])
        /\ currentPlayerIndex = cpi
        /\ playerColors = flippedColors(noColors, [color |-> seat0])
        /\ selectedPieceId = Null
        /\ winner = Null
        /\ killAnimData = <<>>
        /\ timers = <<>>
        /\ lastOp = "init"
        /\ args = noCall
        /\ ret = FALSE

SpecEndgame == InitEndgame /\ [][Next]_vars

----------------------------------------------------------------------------
(* The rules functions on their own: a board is drawn, then the functions  *)
(* are called on it.                                                        *)

\* a piece of a board, in one of the states a piece can be in
PieceStates == {"hidden", "revealed", "dying", "dead"}

MkPiece(id, type, color, r, c, state) ==
    [id |-> id, type |-> type, color |-> color,
     position |-> [r |-> r, c |-> c],
     revealed |-> (state # "hidden"),
     dead |-> (state = "dead"),
     dying |-> (state = "dying"),
     rank |-> PIECE_RANKS[type]]

\* two pieces side by side in a corner of the board, of every type and colour
PairBoards ==
    {<<MkPiece(0, mt, mc, corner[1], corner[2], "revealed"),
       MkPiece(1, tt, tc, corner[3], corner[4], ts)>> :
        mt \in PieceTypes, mc \in PlayerColor, tt \in PieceTypes,
        tc \in PlayerColor, ts \in PieceStates,
        corner \in {<<0, 0, 0, 1>>, <<ROWS - 1, COLS - 1, ROWS - 2, COLS - 1>>}}

\* four pieces on a line: a red mover, two pieces in between, a last piece
LineBoards ==
    {<<MkPiece(0, mt, "red", line[1][1], line[1][2], "revealed"),
       MkPiece(1, "soldier", "black", line[2][1], line[2][2], s1),
       MkPiece(2, "horse", "red", line[3][1], line[3][2], s2),
       MkPiece(3, tt, tc, line[4][1], line[4][2], ts)>> :
        mt \in {"cannon", "chariot"}, s1 \in PieceStates, s2 \in PieceStates,
        tt \in {"soldier", "general"}, tc \in PlayerColor,
        ts \in {"hidden", "revealed", "dying"},
        line \in {<< <<1, 0>>, <<1, 1>>, <<1, 2>>, <<1, 3>> >>,
                  << <<3, 2>>, <<2, 2>>, <<1, 2>>, <<0, 2>> >>}}

\* the cells around the pieces of ps, one step beyond them in every direction
CellsAround(ps) ==
    LET rs == {ps[i].position.r : i \in 1..Len(ps)}
        cs == {ps[i].position.c : i \in 1..Len(ps)}
    IN  {[r |-> r, c |-> c] :
            r \in (Min(rs) - 1)..(Min(rs) + Cardinality(rs)),
            c \in (Min(cs) - 1)..(Min(cs) + Cardinality(cs))}

\* a red piece in the corner (0,0) with a piece on each of its two neighbour
\* cells, and a captured red soldier lying on one of these
CornerBoards ==
    {<<MkPiece(0, mt, "red", 0, 0, ms),
       MkPiece(1, t1, c1, 0, 1, s1),
       MkPiece(2, t2, c2, 1, 0, s2),
       MkPiece(3, "soldier", "red", 0, 1, s3)>> :
        mt \in {"soldier", "general", "cannon"}, ms \in PieceStates,
        t1 \in {"soldier", "general"}, c1 \in PlayerColor, s1 \in PieceStates,
        t2 \in {"soldier", "general"}, c2 \in PlayerColor, s2 \in PieceStates,
        s3 \in {"dying", "dead"}}

InitRules ==
    /\ pieces \in PairBoards \cup LineBoards \cup CornerBoards
    /\ gameStarted = FALSE
    /\ currentPlayerIndex = 0
    /\ playerColors = noColors
    /\ selectedPieceId = Null
    /\ winner = Null
    /\ killAnimData = <<>>
    /\ timers = <<>>
    /\ lastOp = "init"
    /\ args = noCall
    /\ ret = FALSE

CallIsValidMove ==
    \E i \in 1..Len(pieces) : \E to \in CellsAround(pieces) :
        /\ args = noCall
        /\ args' = [noCall EXCEPT !.f = "isValidMove", !.piece = i, !.to = to]
        /\ ret' = isValidMove(pieces, pieces[i], to)
        /\ UNCHANGED <<gameStarted, pieces, currentPlayerIndex, playerColors,
                       selectedPieceId, winner, killAnimData, timers, lastOp>>

CallCheckHasValidMoves ==
    \E playerColor \in PlayerColor :
        /\ args = noCall
        /\ args' = [noCall EXCEPT !.f = "checkHasValidMoves",
                                  !.playerColor = playerColor]
        /\ ret' = checkHasValidMoves(pieces, playerColor)
        /\ UNCHANGED <<gameStarted, pieces, currentPlayerIndex, playerColors,
                       selectedPieceId, winner, killAnimData, timers, lastOp>>

NextRules == CallIsValidMove \/ CallCheckHasValidMoves

SpecRules == InitRules /\ [][NextRules]_vars

----------------------------------------------------------------------------
(* countObstacles on its own: a line of pieces and two distinct positions  *)
(* of the board are drawn, then countObstacles is called with them.        *)

\* the positions of the board among the cells around the pieces of ps
BoardCellsAround(ps) ==
    {p \in CellsAround(ps) : ~outOfBounds(p)}

InitObstacles ==
    /\ pieces \in LineBoards
    /\ \E from \in BoardCellsAround(pieces) :
          \E to \in BoardCellsAround(pieces) \ {from} :
            args = [noCall EXCEPT !.from = from, !.to = to]
    /\ gameStarted = FALSE
    /\ currentPlayerIndex = 0
    /\ playerColors = noColors
    /\ selectedPieceId = Null
    /\ winner = Null
    /\ killAnimData = <<>>
    /\ timers = <<>>
    /\ lastOp = "init"
    /\ ret = 0

CallCountObstacles ==
    /\ args.f = "none"
    /\ args' = [args EXCEPT !.f = "countObstacles"]
    /\ ret' = countObstacles(pieces, args.from, args.to)
    /\ UNCHANGED <<gameStarted, pieces, currentPlayerIndex, playerColors,
                   selectedPieceId, winner, killAnimData, timers, lastOp>>

NextObstacles == CallCountObstacles

SpecObstacles == InitObstacles /\ [][NextObstacles]_vars

----------------------------------------------------------------------------
(* The deal on its own: the outcomes of Math.random() are drawn, then      *)
(* generateNewGamePieces is called with them.                              *)

\* the outcomes of a shuffle in which no element moves, and of one in which
\* every element is swapped with the first
Identity == [i \in 1..(ROWS * COLS - 1) |-> i]

AllFirst == [i \in 1..(ROWS * COLS - 1) |-> 0]

\* outcomes js[i] <= i: those of a base shuffle, with every outcome of the
\* steps i = 1..MaxShuffleLow and three outcomes of the first step i = 31
DealInputs ==
    {[i \in 1..(ROWS * COLS - 1) |->
        IF i <= MaxShuffleLow THEN lo[i]
        ELSE IF i = ROWS * COLS - 1 THEN hi
        ELSE base[i]] :
        base \in {Identity, AllFirst, DealA},
        lo \in {f \in [1..MaxShuffleLow -> 0..MaxShuffleLow] :
                    \A i \in 1..MaxShuffleLow : f[i] <= i},
        hi \in {0, COLS, ROWS * COLS - 1}}

InitDeal ==
    /\ \E js \in DealInputs : args = [noCall EXCEPT !.js = js]
    /\ pieces = <<>>
    /\ gameStarted = FALSE
    /\ currentPlayerIndex = 0
    /\ playerColors = noColors
    /\ selectedPieceId = Null
    /\ winner = Null
    /\ killAnimData = <<>>
    /\ timers = <<>>
    /\ lastOp = "init"
    /\ ret = FALSE

CallGenerateNewGamePieces ==
    /\ args.f = "none"
    /\ args' = [args EXCEPT !.f = "generateNewGamePieces"]
    /\ pieces' = generateNewGamePieces(args.js)
    /\ UNCHANGED <<gameStarted, currentPlayerIndex, playerColors,
                   selectedPieceId, winner, killAnimData, timers, lastOp, ret>>

NextDeal == CallGenerateNewGamePieces

SpecDeal == InitDeal /\ [][NextDeal]_vars

----------------------------------------------------------------------------
(* Properties *)

Live(p) == ~p.dead /\ ~p.dying

PieceIdx == 1..Len(pieces)

\* C1: in every reachable state at most one live (not dead, not dying) piece
\* stands on any position.
C1_OneLivePiecePerPosition ==
    \A i, j \in PieceIdx :
        (i # j /\ Live(pieces[i]) /\ Live(pieces[j]))
            => ~isSamePosition(pieces[i].position, pieces[j].position)

\* a capture has been applied: the mover stands on the cell of its dying victim
C1_Witness ==
    \E i, j \in PieceIdx :
        /\ Live(pieces[i]) /\ pieces[j].dying
        /\ isSamePosition(pieces[i].position, pieces[j].position)

\* the step handles a click on cell rc
ClickOn(rc) == handleSquareClick(rc[1], rc[2])

\* the step accepts a move: it queues a capture or moves a piece at once
MoveAccepted ==
    \/ /\ Len(timers') = Len(timers) + 1
       /\ timers'[Len(timers')][1] = "capture"
    \/ /\ Len(timers') = Len(timers)
       /\ \E i \in PieceIdx : pieces'[i].position # pieces[i].position
       /\ \E i \in PieceIdx : pieces'[i].revealed

\* the piece (as it was when the click was handled) that an accepted move moves
AcceptedMover ==
    IF Len(timers') = Len(timers) + 1
    THEN timers'[Len(timers')][2].piece
    ELSE pieces[CHOOSE i \in PieceIdx : pieces'[i].position # pieces[i].position]

\* C2: a move is accepted only for a mover that is live, revealed, of the
\* colour of the active seat, and for which isValidMove holds for the
\* clicked cell on the current board.
C2_MoveOnlyForSelectableMover ==
    [][\A rc \in ClickCells : (ClickOn(rc) /\ MoveAccepted) =>
        LET m == AcceptedMover
        IN  /\ Live(m)
            /\ m.revealed
            /\ m.color = playerColors[currentPlayerIndex]
            /\ isValidMove(pieces, m, [r |-> rc[1], c |-> rc[2]])]_vars

\* the target of the call is on the board
InBounds(to) == to.r \in 0..(ROWS - 1) /\ to.c \in 0..(COLS - 1)

\* the live pieces that stand on position to
LiveAt(to) == {i \in PieceIdx : Live(pieces[i]) /\ pieces[i].position = to}

OrthogonallyAdjacent(a, b) ==
    \/ a.r = b.r /\ (a.c = b.c + 1 \/ b.c = a.c + 1)
    \/ a.c = b.c /\ (a.r = b.r + 1 \/ b.r = a.r + 1)

\* the rank rule of the claim
RankRule(attacker, target) ==
    \/ attacker.type = "soldier" /\ target.type = "general"
    \/ /\ ~(attacker.type = "general" /\ target.type = "soldier")
       /\ ~(attacker.type = "soldier" /\ target.type = "general")
       /\ attacker.rank >= target.rank

\* C3: for a non-cannon piece and an in-bounds target, isValidMove is true
\* iff the target is orthogonally adjacent and either holds no live piece or
\* holds a live revealed piece of the other colour that passes the rank rule.
C3_RegularPieceMove ==
    (args.f = "isValidMove" /\ pieces[args.piece].type # "cannon" /\ InBounds(args.to))
    => LET m == pieces[args.piece]
       IN  ret <=>
             /\ OrthogonallyAdjacent(m.position, args.to)
             /\ \/ LiveAt(args.to) = {}
                \/ \E i \in LiveAt(args.to) :
                      /\ pieces[i].revealed
                      /\ pieces[i].color # m.color
                      /\ RankRule(m, pieces[i])

\* a soldier was allowed onto the general next to it (scenario B)
C3_Witness ==
    /\ args.f = "isValidMove" /\ ret
    /\ pieces[args.piece].type = "soldier"
    /\ \E i \in LiveAt(args.to) : pieces[i].type = "general"

\* the live pieces strictly between positions a and b of one row or column
Between(a, b) ==
    {i \in PieceIdx :
        /\ Live(pieces[i])
        /\ \/ /\ a.r = b.r /\ pieces[i].position.r = a.r
              /\ \/ a.c < pieces[i].position.c /\ pieces[i].position.c < b.c
                 \/ b.c < pieces[i].position.c /\ pieces[i].position.c < a.c
           \/ /\ a.c = b.c /\ pieces[i].position.c = a.c
              /\ \/ a.r < pieces[i].position.r /\ pieces[i].position.r < b.r
                 \/ b.r < pieces[i].position.r /\ pieces[i].position.r < a.r}

\* C4: for a cannon and an in-bounds target, isValidMove is true iff the
\* target holds no live piece and is orthogonally adjacent, or the target
\* holds a live revealed piece of the other colour in the cannon's row or
\* column with exactly one live piece strictly between them.
C4_CannonMove ==
    (args.f = "isValidMove" /\ pieces[args.piece].type = "cannon" /\ InBounds(args.to))
    => LET m == pieces[args.piece]
       IN  ret <=>
             \/ LiveAt(args.to) = {} /\ OrthogonallyAdjacent(m.position, args.to)
             \/ /\ \E i \in LiveAt(args.to) :
                      pieces[i].revealed /\ pieces[i].color # m.color
                /\ (m.position.r = args.to.r \/ m.position.c = args.to.c)
                /\ Cardinality(Between(m.position, args.to)) = 1

\* a cannon was allowed to capture over one hidden piece (scenario D)
C4_Witness ==
    /\ args.f = "isValidMove" /\ ret
    /\ pieces[args.piece].type = "cannon"
    /\ LiveAt(args.to) # {}
    /\ \E i \in Between(pieces[args.piece].position, args.to) : ~pieces[i].revealed

\* the cell of a click
Cell(rc) == [r |-> rc[1], c |-> rc[2]]

\* the live hidden pieces on cell rc
HiddenLiveAt(rc) ==
    {i \in PieceIdx :
        Live(pieces[i]) /\ ~pieces[i].revealed /\ pieces[i].position = Cell(rc)}

\* the step turns a piece on cell rc face up
FlipPerformed(rc) ==
    \E i \in PieceIdx :
        pieces[i].position = Cell(rc) /\ ~pieces[i].revealed /\ pieces'[i].revealed

\* C5: while no winner is declared and no capture animation is pending, a
\* click on a cell performs a flip iff the cell holds a live hidden piece,
\* whatever the piece's colour, the active seat and the selection.
C5_FlipIffLiveHidden ==
    [][\A rc \in ClickCells :
         (ClickOn(rc) /\ winner = Null /\ killAnimData = <<>>)
            => (FlipPerformed(rc) <=> HiddenLiveAt(rc) # {})]_vars

\* seat 1 has just flipped a piece of the colour of seat 0
C5_Witness ==
    /\ lastOp = "flip"
    /\ currentPlayerIndex = 0
    /\ playerColors[0] # "null"
    /\ \A i \in PieceIdx : pieces[i].revealed => pieces[i].color = playerColors[0]
    /\ Cardinality({i \in PieceIdx : pieces[i].revealed}) = 2

\* C6: an accepted flip sets revealed on exactly the flipped piece and
\* changes nothing else of any piece, also while a captured piece is dying.
C6_FlipFrame ==
    [][\A rc \in ClickCells :
         (ClickOn(rc) /\ FlipPerformed(rc))
            => \E i \in HiddenLiveAt(rc) :
                  pieces' = [pieces EXCEPT ![i].revealed = TRUE]]_vars

\* a piece has just been flipped while a captured piece is dying
C6_Witness ==
    /\ lastOp = "flip"
    /\ \E i \in PieceIdx : pieces[i].dying

OtherColor(color) == IF color = "red" THEN "black" ELSE "red"

\* C7: the first flip of a game (seat colours unassigned) gives seat 0 the
\* colour of the flipped piece and seat 1 the other colour; a later flip
\* leaves the seat colours unchanged.
C7_FirstFlipAssignsColors ==
    [][\A rc \in ClickCells :
         (ClickOn(rc) /\ FlipPerformed(rc))
            => \A i \in HiddenLiveAt(rc) :
                  IF playerColors[0] = "null" /\ playerColors[1] = "null"
                  THEN /\ playerColors'[0] = pieces[i].color
                       /\ playerColors'[1] = OtherColor(pieces[i].color)
                  ELSE playerColors' = playerColors]_vars

\* a second piece, of the colour of seat 1, has been flipped and seat 0 has
\* kept the colour of the first
C7_Witness ==
    /\ lastOp = "flip"
    /\ currentPlayerIndex = 0
    /\ \E i, j \in PieceIdx :
          /\ {n \in PieceIdx : pieces[n].revealed} = {i, j}
          /\ pieces[i].color = playerColors[0]
          /\ pieces[j].color = playerColors[1]
          /\ pieces[i].color # pieces[j].color

\* C8: once assigned, the seat colours do not change and do not become
\* unassigned in any step other than a reset.
C8_ColorsPermanent ==
    [][(playerColors[0] # "null" /\ ~resetGame /\ ~backToSetup)
          => playerColors' = playerColors]_vars

\* the colours are still assigned after a capture was applied and a seat
\* has surrendered
C8_Witness ==
    /\ lastOp = "surrender"
    /\ playerColors[0] # "null" /\ playerColors[1] # "null"
    /\ \E i \in PieceIdx : pieces[i].dying \/ pieces[i].dead

\* the step accepts a flip on one of the cells
FlipAccepted == \E rc \in ClickCells : ClickOn(rc) /\ FlipPerformed(rc)

\* the step accepts a move that captures nothing and applies it at once
PlainMoveAccepted ==
    /\ \E rc \in ClickCells : ClickOn(rc)
    /\ MoveAccepted
    /\ Len(timers') = Len(timers)

SeatAdvanced == currentPlayerIndex' = otherSeat(currentPlayerIndex)

\* C9: the active seat changes to the other seat with every accepted flip
\* and every completed move that produces no win; from the acceptance of a
\* capturing move to the completion of its board update it changes exactly
\* once; and it changes in no other step (a reset starts over at seat 0).
C9_SeatAdvancesOncePerTurn ==
    [][/\ FlipAccepted => SeatAdvanced
       /\ (PlainMoveAccepted /\ winner' = Null) => SeatAdvanced
       /\ \A i \in 1..Len(timers) :
             (captureTimer(i) /\ winner' = Null)
                => currentPlayerIndex' =
                      otherSeat(timers[i][2].closure.currentPlayerIndex)
       /\ currentPlayerIndex' # currentPlayerIndex
             => \/ FlipAccepted
                \/ PlainMoveAccepted
                \/ CaptureTimerFires
                \/ resetGame
                \/ backToSetup]_vars

\* the pieces of a colour left on the board after the step, hidden or not
LiveAfter(color) ==
    {i \in 1..Len(pieces') :
        pieces'[i].color = color /\ ~pieces'[i].dead /\ ~pieces'[i].dying}

\* what the claim says of a board update for a move of mover by seat
UpdateOutcome(mover, seat) ==
    IF LiveAfter(OtherColor(mover.color)) = {}
    THEN /\ winner' = seat
         /\ currentPlayerIndex' = currentPlayerIndex
    ELSE /\ SeatAdvanced
         /\ winner' # winner =>
               /\ winner = Null
               /\ winner' = otherSeat(currentPlayerIndex')
               /\ ~checkHasValidMoves(pieces', playerColors'[currentPlayerIndex'])

\* C10: a board update that leaves the colour opposing the mover without a
\* live piece declares the mover's seat winner in the same step and does not
\* advance the active seat; one that leaves it a live piece (hidden ones
\* count) advances the seat, and the only winner it can come with is the
\* one of the stalemate check.
C10_EliminationWin ==
    [][/\ PlainMoveAccepted => UpdateOutcome(AcceptedMover, currentPlayerIndex)
       /\ \A i \in 1..Len(timers) :
             captureTimer(i)
                => UpdateOutcome(timers[i][2].piece,
                                 timers[i][2].closure.currentPlayerIndex)]_vars

\* the capture of the last piece of a colour has been applied: the seat of
\* the capturing colour has won and is still the active seat
C10_Witness ==
    /\ lastOp = "captureTimer"
    /\ winner # Null
    /\ winner = currentPlayerIndex
    /\ playerColors[winner] # "null"
    /\ \E i \in PieceIdx : pieces[i].dying /\ pieces[i].color # playerColors[winner]
    /\ \A i \in PieceIdx :
          pieces[i].color # playerColors[winner] => (pieces[i].dead \/ pieces[i].dying)

\* the game is settled and the colour of the active seat has no legal action
Stalemated ==
    /\ winner = Null /\ killAnimData = <<>>
    /\ playerColors[0] # "null" /\ playerColors[1] # "null"
    /\ ~checkHasValidMoves(pieces, playerColors[currentPlayerIndex])

\* the step applies the board update of a move that leaves the colour
\* opposing the mover without a live piece
EliminationStep ==
    \/ PlainMoveAccepted /\ LiveAfter(OtherColor(AcceptedMover.color)) = {}
    \/ \E i \in 1..Len(timers) :
          captureTimer(i) /\ LiveAfter(OtherColor(timers[i][2].piece.color)) = {}

\* C11: a settled game (no winner, no animation, colours assigned) in which
\* the colour of the active seat has no legal action never waits for the
\* next click: the stalemate check has declared the other seat winner; and a
\* winner that comes from neither a surrender nor an elimination is the seat
\* that is not active, declared while the active seat's colour has no legal
\* flip or move.
C11_StalemateCheck ==
    /\ [](~Stalemated)
    /\ [][(winner' # winner /\ winner' # Null /\ ~handleSurrender /\ ~EliminationStep)
            => /\ winner = Null
               /\ winner' = otherSeat(currentPlayerIndex')
               /\ killAnimData' = <<>>
               /\ playerColors'[currentPlayerIndex'] # "null"
               /\ ~checkHasValidMoves(pieces', playerColors'[currentPlayerIndex'])]_vars

\* a capture has left the active colour a live piece that cannot move, and
\* the other seat has been declared winner
C11_Witness ==
    /\ lastOp = "captureTimer"
    /\ winner = otherSeat(currentPlayerIndex)
    /\ playerColors[currentPlayerIndex] # "null"
    /\ \E i \in PieceIdx :
          Live(pieces[i]) /\ pieces[i].color = playerColors[currentPlayerIndex]
    /\ ~checkHasValidMoves(pieces, playerColors[currentPlayerIndex])

\* C12: checkHasValidMoves is true for either colour whenever a live piece
\* is hidden, whatever the colour of that piece and whether or not the
\* queried colour has a live piece.
C12_HiddenPieceMeansMoves ==
    (args.f = "checkHasValidMoves"
        /\ \E i \in PieceIdx : Live(pieces[i]) /\ ~pieces[i].revealed)
    => ret

\* the answer was true for a colour without a live piece, a piece of the
\* other colour being hidden
C12_Witness ==
    /\ args.f = "checkHasValidMoves" /\ ret
    /\ \A i \in PieceIdx : pieces[i].color = args.playerColor => ~Live(pieces[i])
    /\ \E i \in PieceIdx : Live(pieces[i]) /\ ~pieces[i].revealed

\* the in-bounds cells
AllCells == {[r |-> r, c |-> c] : r \in 0..(ROWS - 1), c \in 0..(COLS - 1)}

\* C13: checkHasValidMoves is false iff no live piece is hidden and no live
\* revealed piece of the colour has an in-bounds target for which
\* isValidMove holds; dead and dying pieces are not movers.
C13_NoMovesIff ==
    args.f = "checkHasValidMoves"
    => (~ret <=>
          /\ \A i \in PieceIdx : Live(pieces[i]) => pieces[i].revealed
          /\ \A i \in PieceIdx :
                (Live(pieces[i]) /\ pieces[i].revealed
                    /\ pieces[i].color = args.playerColor)
                => \A to \in AllCells : ~isValidMove(pieces, pieces[i], to))

\* the answer was false for a colour that has a live cornered piece and a
\* dying piece
C13_Witness ==
    /\ args.f = "checkHasValidMoves" /\ ~ret
    /\ \E i, j \in PieceIdx :
          /\ pieces[i].color = args.playerColor /\ Live(pieces[i])
          /\ pieces[j].color = args.playerColor /\ pieces[j].dying

\* C14: before the game is over (also before the first flip and while a
\* capture animation is pending) each of the two seats, active or not, can
\* surrender, and the surrender declares the other seat winner.
C14_EitherSeatMaySurrender ==
    (gameStarted /\ winner = Null /\ UserEvent)
    => \A seat \in {0, 1} :
          ENABLED (handleSurrender /\ winner' = otherSeat(seat))

\* C15: a declared winner does not change, to the other seat or to none,
\* in any step other than a reset.
C15_WinnerPermanent ==
    [][(winner # Null /\ ~resetGame /\ ~backToSetup) => winner' = winner]_vars

\* C16: while a winner is declared, in every step other than a reset, no
\* piece changes position or its revealed flag, no piece becomes dying, a
\* piece becomes dead only from dying, and the active seat and the seat
\* colours stay as they are.
C16_NothingAfterGameOver ==
    [][(winner # Null /\ ~resetGame /\ ~backToSetup)
          => /\ currentPlayerIndex' = currentPlayerIndex
             /\ playerColors' = playerColors
             /\ \A i \in PieceIdx :
                   /\ pieces'[i].id = pieces[i].id
                   /\ pieces'[i].position = pieces[i].position
                   /\ pieces'[i].revealed = pieces[i].revealed
                   /\ pieces'[i].dying => pieces[i].dying
                   /\ pieces'[i].dead => (pieces[i].dead \/ pieces[i].dying)]_vars

\* C17: a reset, in whatever state it is invoked, leaves 32 pieces, one on
\* every cell, all hidden, none dead or dying, both seat colours unassigned,
\* seat 0 active, no winner, no selection and no capture animation.
C17_ResetToAwaitingFirstFlip ==
    [][(resetGame \/ backToSetup)
          => /\ Len(pieces') = ROWS * COLS
             /\ \A to \in AllCells :
                   Cardinality({i \in 1..Len(pieces') : pieces'[i].position = to}) = 1
             /\ \A i \in 1..Len(pieces') :
                   ~pieces'[i].revealed /\ ~pieces'[i].dead /\ ~pieces'[i].dying
             /\ playerColors'[0] = "null" /\ playerColors'[1] = "null"
             /\ currentPlayerIndex' = 0
             /\ winner' = Null
             /\ selectedPieceId' = Null
             /\ killAnimData' = <<>>]_vars

\* the game has just been reset while a capture was pending
C17_Witness ==
    /\ lastOp = "reset"
    /\ \E i \in 1..Len(timers) : timers[i][1] = "capture"
    /\ \A i \in PieceIdx : ~pieces[i].revealed

\* the number of pieces of a type and colour in a full set
FullSet(type) ==
    IF type = "general" THEN 1 ELSE IF type = "soldier" THEN 5 ELSE 2

\* C18: generateNewGamePieces yields 32 pieces with distinct ids, 16 of each
\* colour, each colour with 1 general, 5 soldiers and 2 of every other type,
\* all hidden and not dead, each with the rank of its type, one piece on
\* every cell, for every outcome of the shuffle.
C18_FullDeal ==
    args.f = "generateNewGamePieces"
    => /\ Len(pieces) = 32
       /\ \A i, j \in PieceIdx : i # j => pieces[i].id # pieces[j].id
       /\ \A color \in PlayerColor :
             /\ Cardinality({i \in PieceIdx : pieces[i].color = color}) = 16
             /\ \A type \in PieceTypes :
                   Cardinality({i \in PieceIdx : pieces[i].color = color
                                                  /\ pieces[i].type = type})
                      = FullSet(type)
       /\ \A i \in PieceIdx :
             /\ ~pieces[i].revealed /\ ~pieces[i].dead
             /\ pieces[i].rank = PIECE_RANKS[pieces[i].type]
       /\ \A to \in AllCells :
             Cardinality({i \in PieceIdx : pieces[i].position = to}) = 1

\* a deal in which the shuffle has moved the red general away from the
\* first cell and a black piece onto it
C18_Witness ==
    /\ args.f = "generateNewGamePieces"
    /\ pieces[1].color = "black"
    /\ \E i \in PieceIdx :
          i > COLS /\ pieces[i].type = "general" /\ pieces[i].color = "red"

\* a click on cell rc selects a piece of the active seat's colour
OwnPieceAt(rc) ==
    \E i \in LiveAt(Cell(rc)) :
        /\ pieces[i].revealed
        /\ playerColors[currentPlayerIndex] # "null"
        /\ pieces[i].color = playerColors[currentPlayerIndex]

\* cell rc is a valid target of the selected piece
ValidMoveOfSelected(rc) ==
    /\ selectedPieceId # Null
    /\ \E i \in PieceIdx :
          pieces[i].id = selectedPieceId /\ isValidMove(pieces, pieces[i], Cell(rc))

\* a click on rc is rejected: the game is over or an animation is pending,
\* or the click is no legal flip, no selection and no valid move
Rejected(rc) ==
    \/ winner # Null
    \/ killAnimData # <<>>
    \/ HiddenLiveAt(rc) = {} /\ ~OwnPieceAt(rc) /\ ~ValidMoveOfSelected(rc)

\* C19: a rejected click leaves every piece, the active seat, the seat
\* colours and the winner unchanged.
C19_RejectedClickChangesNothing ==
    [][\A rc \in ClickCells :
         (ClickOn(rc) /\ Rejected(rc))
            => /\ pieces' = pieces
               /\ currentPlayerIndex' = currentPlayerIndex
               /\ playerColors' = playerColors
               /\ winner' = winner]_vars

\* a move of the selected piece has just been refused: the piece is still
\* where it was, next to the live piece it was sent to
C19_Witness ==
    /\ lastOp = "deselect"
    /\ winner = Null
    /\ \E i, j \in PieceIdx :
          /\ Live(pieces[i]) /\ Live(pieces[j]) /\ pieces[j].revealed
          /\ pieces[i].color = playerColors[currentPlayerIndex]
          /\ pieces[j].color # pieces[i].color
          /\ OrthogonallyAdjacent(pieces[i].position, pieces[j].position)

\* the pieces on the cells that can be clicked
ClickablePieces == 1..(MaxClickCell + 1)

\* C20: a captured piece that is dying eventually is dead and no longer
\* dying, unless the game is reset (which turns every piece face down), and
\* a dead piece stays dead and not dying in every step other than a reset.
C20_CapturedBecomesDead ==
    /\ [][\A i \in PieceIdx :
            (pieces[i].dead /\ ~resetGame /\ ~backToSetup)
               => (pieces'[i].dead /\ ~pieces'[i].dying)]_vars
    /\ \A i \in ClickablePieces :
          pieces[i].dying
             ~> ((pieces[i].dead /\ ~pieces[i].dying) \/ ~pieces[i].revealed)

\* C21: in every reachable state no piece is both dead and dying.
C21_NeverDeadAndDying ==
    \A i \in PieceIdx : ~(pieces[i].dead /\ pieces[i].dying)

\* a captured piece has been marked dead by its timer while the piece
\* captured after it is dying
C21_Witness ==
    /\ lastOp = "deadTimer"
    /\ \E i, j \in PieceIdx :
          /\ pieces[i].dead /\ ~pieces[i].dying /\ pieces[i].revealed
          /\ pieces[j].dying /\ ~pieces[j].dead

\* what the claim says of the board after the update of a move of mover to
\* cell to that captures target (undefined if the cell held no live piece)
UpdateFrame(mover, to, target) ==
    /\ Len(pieces') = Len(pieces)
    /\ \A j \in PieceIdx :
          IF pieces[j].id = mover.id
          THEN pieces'[j] = [pieces[j] EXCEPT !.position = to]
          ELSE IF target # undefined /\ pieces[j].id = target.id
               THEN pieces'[j] = [pieces[j] EXCEPT !.dying = TRUE]
               ELSE pieces'[j] = pieces[j]

\* C22: the board update of a move puts the mover on the target cell, makes
\* the captured piece dying, and leaves every other piece as it was in the
\* state immediately before the update.
C22_BoardUpdateFrame ==
    [][/\ \A rc \in ClickCells :
             (ClickOn(rc) /\ PlainMoveAccepted)
                => UpdateFrame(AcceptedMover, Cell(rc), undefined)
       /\ \A i \in 1..Len(timers) :
             captureTimer(i)
                => UpdateFrame(timers[i][2].piece, timers[i][2].to,
                               timers[i][2].targetPiece)]_vars

\* the largest rank tried for the cannon
MaxCannonRank == 8

\* the board on which every cannon carries rank k
withCannonRank(ps, k) ==
    [i \in 1..Len(ps) |->
       IF ps[i].type = "cannon" THEN [ps[i] EXCEPT !.rank = k] ELSE ps[i]]

\* the result of the call is the same whatever rank the cannons carry
SameForEveryCannonRank ==
    \A k \in 0..MaxCannonRank :
        isValidMove(withCannonRank(pieces, k),
                    withCannonRank(pieces, k)[args.piece], args.to) = ret

\* C23 as stated: the result of isValidMove is the same whatever rank value
\* cannon pieces carry, for every board, mover and target.
C23_CannonRankNeverConsulted ==
    args.f = "isValidMove" => SameForEveryCannonRank

\* C23, amended: the result of isValidMove is the same whatever rank value
\* cannon pieces carry whenever the mover is a cannon or the target cell
\* holds no live cannon (the rank of a cannon that is the target of a
\* regular piece is compared with the mover's rank).
C23_CannonRankOnlyAsTarget ==
    (args.f = "isValidMove"
        /\ \/ pieces[args.piece].type = "cannon"
           \/ \A i \in LiveAt(args.to) : pieces[i].type # "cannon")
    => SameForEveryCannonRank

\* a cannon was allowed to capture a general, a piece of higher rank
C23_Witness ==
    /\ args.f = "isValidMove" /\ ret
    /\ pieces[args.piece].type = "cannon"
    /\ \E i \in LiveAt(args.to) :
          pieces[i].type = "general" /\ pieces[i].rank > pieces[args.piece].rank

\* the step sets the selection to piece i
Selects(i) ==
    selectedPieceId' = pieces[i].id /\ pieces' = pieces /\ timers' = Aged(timers)

\* C24: a click selects the live piece on the clicked cell exactly when
\* canSelectPiece holds for it and the colour of the active seat, so only a
\* revealed piece of the assigned colour of the active seat; a click changes
\* the selection to no other piece; and while the active seat has no colour
\* no click selects a piece or is accepted as a move.
C24_SelectOnlyOwnRevealed ==
    [][\A rc \in ClickCells :
         ClickOn(rc) =>
            /\ (winner = Null /\ killAnimData = <<>>)
                  => \A i \in LiveAt(Cell(rc)) :
                        Selects(i)
                           <=> canSelectPiece(pieces[i],
                                              playerColors[currentPlayerIndex])
            /\ (selectedPieceId' # selectedPieceId /\ selectedPieceId' # Null)
                  => \E i \in LiveAt(Cell(rc)) :
                        /\ selectedPieceId' = pieces[i].id
                        /\ pieces[i].revealed
                        /\ playerColors[currentPlayerIndex] # "null"
                        /\ pieces[i].color = playerColors[currentPlayerIndex]
            /\ playerColors[currentPlayerIndex] = "null"
                  => (selectedPieceId' = Null /\ ~MoveAccepted)]_vars

\* a revealed piece of the active seat's colour has just been selected,
\* next to a revealed piece of the other colour
C24_Witness ==
    /\ lastOp = "select"
    /\ \E i, j \in PieceIdx :
          /\ pieces[i].id = selectedPieceId
          /\ Live(pieces[i]) /\ pieces[i].revealed
          /\ pieces[i].color = playerColors[currentPlayerIndex]
          /\ Live(pieces[j]) /\ pieces[j].revealed
          /\ pieces[j].color # pieces[i].color

\* a game that awaits its first flip
AwaitingFirstFlip ==
    /\ \A i \in PieceIdx : ~pieces[i].revealed /\ ~pieces[i].dead /\ ~pieces[i].dying
    /\ currentPlayerIndex = 0
    /\ playerColors = noColors
    /\ winner = Null

\* C25: a game that awaits its first flip stays so in every step that is
\* neither a flip nor a surrender, in particular when a timer scheduled
\* before the reset fires: all pieces hidden and live, seat 0 active, the
\* colours unassigned, no winner.
C25_TimersDoNotTouchNewGame ==
    [][(AwaitingFirstFlip /\ ~FlipAccepted /\ ~handleSurrender)
          => AwaitingFirstFlip']_vars

\* the captures that have been accepted and not yet applied to the board
PendingCaptures == {i \in 1..Len(timers) : timers[i][1] = "capture"}

\* the step is a click that changes the selection to a piece
SelectionAccepted ==
    /\ \E rc \in ClickCells : ClickOn(rc)
    /\ selectedPieceId' # selectedPieceId /\ selectedPieceId' # Null

\* C26: while a capture is pending no flip, selection or move is accepted
\* and no winner is declared by the stalemate check (a winner changes only
\* by a surrender, a reset or the board update of the capture); and at most
\* one capture is pending at any time.
C26_NothingWhileCapturePending ==
    /\ [](Cardinality(PendingCaptures) <= 1)
    /\ [][PendingCaptures # {}
            => /\ ~FlipAccepted
               /\ ~SelectionAccepted
               /\ ~((\E rc \in ClickCells : ClickOn(rc)) /\ MoveAccepted)
               /\ winner' # winner
                     => \/ handleSurrender \/ resetGame \/ backToSetup
                        \/ CaptureTimerFires]_vars

\* C27: selectedPieceId is null or names a piece that is live (neither
\* dying nor dead), revealed, and of the colour of the active seat.
C27_SelectionIsOwnLivePiece ==
    selectedPieceId # Null
        => LET selected == findById(pieces, selectedPieceId)
           IN  /\ selected # undefined
               /\ Live(selected)
               /\ selected.revealed
               /\ selected.color = playerColors[currentPlayerIndex]

\* C28: isValidMove is false for every target whose row is outside
\* 0..ROWS-1 or whose column is outside 0..COLS-1, whatever the piece and
\* the board, also when the target is next to a piece on the board edge.
C28_OutOfBoundsIsInvalid ==
    (args.f = "isValidMove" /\ ~InBounds(args.to)) => ~ret

\* a move beyond the last column or row, from the cell next to it, was refused
C28_Witness ==
    /\ args.f = "isValidMove" /\ ~ret
    /\ args.to.r >= ROWS \/ args.to.c >= COLS
    /\ OrthogonallyAdjacent(pieces[args.piece].position, args.to)
    /\ Live(pieces[args.piece])

\* C29: for two distinct positions of the board, countObstacles returns -1
\* when they share neither row nor column, and otherwise the number of live
\* pieces strictly between them on their line: hidden and revealed pieces
\* count alike, dead and dying pieces and the two end cells do not count.
C29_CountObstacles ==
    args.f = "countObstacles"
        => ret = IF args.from.r # args.to.r /\ args.from.c # args.to.c
                 THEN -1
                 ELSE Cardinality(Between(args.from, args.to))

\* one obstacle was counted on a line with a hidden live piece and a dying or
\* dead piece in between, and a live piece on each end cell
C29_Witness ==
    /\ args.f = "countObstacles" /\ ret = 1
    /\ LiveAt(args.from) # {} /\ LiveAt(args.to) # {}
    /\ \E i \in Between(args.from, args.to) : ~pieces[i].revealed
    /\ \E i \in PieceIdx :
          /\ ~Live(pieces[i])
          /\ pieces[i].position.r = args.from.r
          /\ pieces[i].position.r = args.to.r
          /\ args.from.c < pieces[i].position.c
          /\ pieces[i].position.c < args.to.c

\* C30: in every reachable state every piece that is dying or dead is
\* revealed.
C30_DeadOrDyingIsRevealed ==
    \A i \in PieceIdx : (pieces[i].dying \/ pieces[i].dead) => pieces[i].revealed

\* C31: whenever the seat colours are unassigned, every piece is hidden and
\* neither dead nor dying, the active seat is 0, and the winner is none or
\* seat 1.
C31_UnassignedMeansFreshGame ==
    playerColors = noColors
        => /\ \A i \in PieceIdx : ~pieces[i].revealed /\ Live(pieces[i])
           /\ currentPlayerIndex = 0
           /\ winner \in {Null, 1}

\* the step accepts a capture: it queues a capture timer
CaptureAccepted ==
    /\ Len(timers') = Len(timers) + 1
    /\ timers'[Len(timers')][1] = "capture"

\* C32: no piece is captured by a piece of its own colour: the target of an
\* accepted capture has the colour opposite to the capturer's, which is the
\* colour of the seat that is not active when the capture is accepted; and
\* the piece that the board update of the capture makes dying has the colour
\* opposite to the piece that the update moves onto its cell.
C32_CapturedByOtherColour ==
    [][/\ CaptureAccepted
            => LET t == timers'[Len(timers')][2]
               IN  /\ t.targetPiece.color # t.piece.color
                   /\ t.targetPiece.color
                         = playerColors[otherSeat(currentPlayerIndex)]
       /\ \A i \in 1..Len(timers) :
            captureTimer(i)
               => LET t == timers[i][2]
                      victim == findById(pieces', t.targetPiece.id)
                      capturer == findById(pieces', t.piece.id)
                  IN  /\ victim.dying
                      /\ capturer.position = victim.position
                      /\ victim.color # capturer.color
                      /\ victim.color
                            = t.closure.playerColors[
                                  otherSeat(t.closure.currentPlayerIndex)]]_vars

\* the board update of a capture has left a dying piece under a live piece
\* of the other colour
C32_Witness ==
    /\ lastOp = "captureTimer"
    /\ \E i, j \in PieceIdx :
          /\ pieces[i].dying /\ Live(pieces[j])
          /\ pieces[j].position = pieces[i].position
          /\ pieces[j].color # pieces[i].color
          /\ pieces[j].color = playerColors[otherSeat(currentPlayerIndex)]

\* C33: in every reachable state the two seat colours are both unassigned,
\* or one is red and the other is black.
C33_ColoursBothOrNeither ==
    \/ playerColors[0] = "null" /\ playerColors[1] = "null"
    \/ /\ playerColors[0] \in PlayerColor /\ playerColors[1] \in PlayerColor
       /\ playerColors[0] # playerColors[1]

\* the first flip of a game, of a black piece, has given seat 0 black and
\* seat 1 red
C33_Witness ==
    /\ lastOp = "flip"
    /\ currentPlayerIndex = 1
    /\ playerColors[0] = "black" /\ playerColors[1] = "red"
    /\ \E i \in PieceIdx :
          /\ {n \in PieceIdx : pieces[n].revealed} = {i}
          /\ pieces[i].color = "black"

\* the cell that piece_k is dealt to
DealtCell(k) == [r |-> k \div COLS, c |-> k % COLS]

\* C34: in every reachable state every hidden piece stands on the cell it
\* was dealt to, piece_k on row k div COLS and column k mod COLS.
C34_HiddenPieceOnDealtCell ==
    \A i \in PieceIdx :
        ~pieces[i].revealed => pieces[i].position = DealtCell(pieces[i].id)

\* a revealed piece has left its cell by a move while hidden pieces remain
C34_Witness ==
    /\ lastOp \in {"move", "captureTimer"}
    /\ \E i \in PieceIdx :
          /\ pieces[i].revealed /\ Live(pieces[i])
          /\ pieces[i].position # DealtCell(pieces[i].id)
    /\ \E i \in PieceIdx : ~pieces[i].revealed /\ Live(pieces[i])

\* C35: in every step other than a reset, a piece that is revealed stays
\* revealed.
C35_RevealedStaysRevealed ==
    [][(~resetGame /\ ~backToSetup)
          => \A i \in PieceIdx : pieces[i].revealed => pieces'[i].revealed]_vars

====
